---- MODULE Spec2Model ----
(***************************************************************************)
(* Model of the structured-log engine of ivanehh/boiler (package logging): *)
(* the record buffer and intake writer (logFileWriter.Write), the flusher  *)
(* (logFileWriter.flush), the rotation selector (findLatestFile), the      *)
(* report reader (logReporter.getLogs) and the logger that ties them       *)
(* together (DCSlogger, NewDCSlogger, GetLogs).                            *)
(*                                                                         *)
(* The file system is the logger's directory: a map from file names        *)
(* (date, index) to the file's bytes and modification time.  Bytes are     *)
(* JSON tokens: "[", "]", "," and one token per encoded record.            *)
(***************************************************************************)
EXTENDS Integers, Sequences, FiniteSets, TLC

\* ---------------------------------------------------------------- constants
MaxStackSize == 5

MaxFileSize == 5096000

\* ---------------------------------------------------------------- bounds
\* accepted write calls over the whole run
MaxWrites == 15

\* the calendar runs over the dates 0..MaxDay
MaxDay == 1

\* exceptional events over the whole run: a record BigRecSize bytes long, an
\* injected failure of the write path (stat, open, read, encode, truncate,
\* write), a NewDCSlogger call after the first, a date change
MaxEvents == 1

\* getLogs is called with days in 0..MaxDaysBack
MaxDaysBack == 1

\* accepted write calls over a run of the concurrent specification
MaxConcWrites == 6

\* accepted write calls over a run of the specification of the program start
MaxStartWrites == 10

\* accepted write calls and exceptional events over a run of the
\* specification of failure and retry
MaxRetryWrites == 7

MaxRetryEvents == 2

\* accepted write calls over a run of the specification of arriving writes
MaxLiveWrites == 11

\* encoded length of an ordinary record and of a very long one
SmallRecSize == 100

BigRecSize == 5096000

\* ---------------------------------------------------------------- data
Days == 0..MaxDay

NoRec == [id |-> 0, day |-> 0, big |-> FALSE]

\* the "level" key slog's JSON handler gives a record: the callers of the
\* model log at Error and at Debug in turn
Level(r) == IF r.id % 2 = 0 THEN "error" ELSE "debug"

\* the file name <date>_<idx>.log.json
FileName(date, idx) == [date |-> date, idx |-> idx]

NoFile == FileName(-1, -1)

\* JSON tokens
LB == [t |-> "[", r |-> NoRec]

RB == [t |-> "]", r |-> NoRec]

Comma == [t |-> ",", r |-> NoRec]

RecTok(r) == [t |-> "rec", r |-> r]

TokSize(tok) == IF tok.t = "rec" THEN (IF tok.r.big THEN BigRecSize ELSE SmallRecSize) ELSE 1

RECURSIVE ByteLen(_)
ByteLen(bytes) == IF bytes = <<>> THEN 0 ELSE TokSize(Head(bytes)) + ByteLen(Tail(bytes))

\* json.Marshal of one LogRecord (what slog's JSON handler hands to Write)
EncodeRecord(r) == <<RecTok(r)>>

\* a decoder that takes any input for a record
DecodeRecordLenient(b) ==
    [ok |-> TRUE, rec |-> IF Len(b) = 1 /\ b[1].t = "rec" THEN b[1].r ELSE NoRec]

\* json.Unmarshal(b, record) with record a *LogRecord
DecodeRecord(b) ==
    IF Len(b) = 1 /\ b[1].t = "rec"
    THEN [ok |-> TRUE, rec |-> b[1].r]
    ELSE [ok |-> FALSE, rec |-> NoRec]

\* json.Marshal of a []LogRecord: [r1,r2,...]
RECURSIVE EncodeElems(_)
EncodeElems(recs) ==
    IF recs = <<>> THEN <<>>
    ELSE IF Len(recs) = 1 THEN <<RecTok(recs[1])>>
    ELSE <<RecTok(recs[1]), Comma>> \o EncodeElems(Tail(recs))

EncodeArray(recs) == <<LB>> \o EncodeElems(recs) \o <<RB>>

\* json.Unmarshal(content, &slice): an error unless content is one whole array
DecodeArray(bytes) ==
    LET n == Len(bytes)
        inner == IF n >= 2 THEN SubSeq(bytes, 2, n - 1) ELSE <<>>
        m == Len(inner)
        wellFormed ==
            /\ n >= 2
            /\ bytes[1].t = "["
            /\ bytes[n].t = "]"
            /\ \/ m = 0
               \/ /\ m % 2 = 1
                  /\ \A i \in 1..m : inner[i].t = (IF i % 2 = 1 THEN "rec" ELSE ",")
    IN IF wellFormed
       THEN [ok |-> TRUE, recs |-> [i \in 1..((m + 1) \div 2) |-> inner[2 * i - 1].r]]
       ELSE [ok |-> FALSE, recs |-> <<>>]

\* ---------------------------------------------------------------- state
VARIABLES
    stack,   \* *esw.stack, shared with logReporter.stackRef
    files,   \* the logger's directory: file name -> [bytes, mtime]
    today,   \* civil.DateOf(time.Now())
    clock,   \* time.Now() as seen by file modification times
    name,    \* DCSlogger.name
    logger,  \* the package variable logger: Nil, or the name of the DCSlogger it points to
    cfg,     \* the LogConfiguration NewDCSlogger was called with
    others,  \* the directories of the other loggers: folder -> directory
    handles, \* the number of files the process holds open
    ret,     \* the call that returned last: its arguments and results
    h,       \* history of the run, for stating the properties
    pc,      \* concurrent specification: where each goroutine is
    wmu,     \* logFileWriter.Mutex: the goroutine holding it, or "free"
    lmu,     \* DCSlogger.Mutex: the goroutine holding it, or "free"
    loc      \* concurrent specification: each goroutine's local variables

vars == <<stack, files, today, clock, name, logger, cfg, others, handles, ret, h, pc, wmu,
          lmu, loc>>

cvars == <<pc, wmu, lmu, loc>>

gvars == <<logger, cfg, others>>

\* what a call that opens no file leaves alone
qvars == <<logger, cfg, others, handles>>

LoggerName == "test"

\* the names loggers are constructed with
Names == {LoggerName, "other"}

\* the package variable logger before the first NewDCSlogger
Nil == "nil"

\* a LogConfiguration: Dir() and MaxFileSize()
Config(dir, maxSize) == [dir |-> dir, maxSize |-> maxSize]

NoConfig == Config("", 0)

DefaultConfig == Config("logs", MaxFileSize)

\* the configurations loggers are constructed with: a complete one, one with
\* a zero size threshold, one with no directory
Configs == {DefaultConfig, Config("logs", 0), Config("", MaxFileSize)}

\* filepath.Join(lc.Dir(), name)
Folder(dir, nm) == [dir |-> dir, name |-> nm]

Folders == {Folder(lc.dir, nm) : lc \in Configs, nm \in Names}

NoReport == <<>>

NoRet == [op |-> "none", b |-> <<>>, fail |-> "none", n |-> 0, err |-> "",
          flushed |-> FALSE, target |-> NoFile, rec |-> NoRec,
          days |-> 0, sev |-> "", unreadable |-> {}, report |-> NoReport,
          panic |-> FALSE, lname |-> ""]

Writers == {"w1", "w2"}

Readers == {"r1"}

Threads == Writers \cup Readers

NoLocals == [b |-> <<>>, rec |-> NoRec, lf |-> NoFile, prevLogs |-> <<>>, err |-> "",
             days |-> 0, sev |-> "", lr |-> NoReport]

\* ---------------------------------------------------------------- rotation
\* fs.Glob(os.DirFS(folder), "<date>*"): the matching names, sorted by name
\* (by index: the model never holds ten files of one date)
DirEntries(fs, date) == {f \in DOMAIN fs : f.date = date}

Glob(fs, date) ==
    LET S == DirEntries(fs, date)
    IN CHOOSE s \in [1..Cardinality(S) -> S] :
          \A i, j \in 1..Cardinality(S) : i < j => s[i].idx < s[j].idx

\* the loop of findLatestFile: the entry modified strictly after all before it
RECURSIVE LatestOf(_, _, _, _)
LatestOf(fs, entries, latestFile, lMod) ==
    IF entries = <<>> THEN latestFile
    ELSE LET entry == Head(entries)
         IN IF fs[entry].mtime > lMod
            THEN LatestOf(fs, Tail(entries), entry, fs[entry].mtime)
            ELSE LatestOf(fs, Tail(entries), latestFile, lMod)

\* os.OpenFile(name, O_CREATE|O_RDWR): creates an empty file when there is none
OpenCreate(fs, f, clk) ==
    IF f \in DOMAIN fs THEN fs
    ELSE [g \in DOMAIN fs \cup {f} |-> IF g = f THEN [bytes |-> <<>>, mtime |-> clk] ELSE fs[g]]

\* a rotation that leaves an index out
TargetNameSkip(fs, now) ==
    LET entries == Glob(fs, now)
        latestFile == LatestOf(fs, entries, NoFile, 0)
    IN IF Len(entries) > 0 /\ ByteLen(fs[latestFile].bytes) >= MaxFileSize
       THEN FileName(now, Len(entries) + 1)
       ELSE FileName(now, 0)

\* the name findLatestFile opens: a new index when the latest file is full,
\* index 0 in every other case
TargetName(fs, now) ==
    LET entries == Glob(fs, now)
        latestFile == LatestOf(fs, entries, NoFile, 0)
    IN IF Len(entries) > 0 /\ ByteLen(fs[latestFile].bytes) >= MaxFileSize
       THEN FileName(now, Len(entries))
       ELSE FileName(now, 0)

\* fail: the step that fails with an I/O error in this call, if any
FindLatestFile(fs, now, clk, fail) ==
    IF fail = "stat" /\ Len(Glob(fs, now)) > 0
    THEN [err |-> "io", hit |-> TRUE, files |-> fs, target |-> NoFile]
    ELSE IF fail = "open"
    THEN [err |-> "io", hit |-> TRUE, files |-> fs, target |-> NoFile]
    ELSE [err |-> "", hit |-> FALSE, files |-> OpenCreate(fs, TargetName(fs, now), clk),
          target |-> TargetName(fs, now)]

\* ---------------------------------------------------------------- flush
\* what lf.Write leaves in the truncated file when it fails: nothing, the
\* first token, or everything but the last token
Partial(out, cut) ==
    IF cut = 0 THEN <<>>
    ELSE IF cut = 1 THEN SubSeq(out, 1, 1)
    ELSE SubSeq(out, 1, Len(out) - 1)

SetFile(fs, f, bytes, clk) == [fs EXCEPT ![f] = [bytes |-> bytes, mtime |-> clk]]

\* lf.Seek(0, 0) and lf.Write(out) on a file that still holds old: out from
\* the start, and what old holds beyond it
Overwrite(old, out) ==
    IF Len(old) > Len(out) THEN out \o SubSeq(old, Len(out) + 1, Len(old)) ELSE out

\* a flush that takes content it cannot decode for no records
ReadPrevLogsLenient(content) ==
    IF Len(content) > 0 /\ DecodeArray(content).ok
    THEN DecodeArray(content)
    ELSE [ok |-> TRUE, recs |-> <<>>]

\* io.ReadAll(lf), then json.Unmarshal unless the file is empty
ReadPrevLogs(content) ==
    IF Len(content) > 0 THEN DecodeArray(content) ELSE [ok |-> TRUE, recs |-> <<>>]

\* the buffer written in front of the old content
MergeLogsReversed(prevLogs, st) == st \o prevLogs

\* a flush that writes the buffer over the old content
MergeLogsDropOld(prevLogs, st) == st

\* a flush that appends the buffer twice
MergeLogsTwice(prevLogs, st) == prevLogs \o st \o st

\* prevLogs = append(prevLogs, *esw.stack...)
MergeLogs(prevLogs, st) == prevLogs \o st

\* a flush that forgets to reset the buffer
ClearStackNoop(st) == st

\* *esw.stack = (*esw.stack)[:0]
ClearStack(st) == <<>>

\* flush from lf.Truncate(0) on: the result of Truncate is dropped, so when
\* it failed the file still holds old when Seek and Write go on
AfterTruncate(failed, old, dec, sel, st, clk) ==
    [err |-> "", hit |-> failed,
     files |-> SetFile(sel.files, sel.target,
                       IF failed
                       THEN Overwrite(old, EncodeArray(MergeLogs(dec.recs, st)))
                       ELSE EncodeArray(MergeLogs(dec.recs, st)), clk),
     stack |-> ClearStack(st), target |-> sel.target]

\* flush, once the old content has been read and decoded to dec
FlushRead(dec, sel, st, clk, fail, cut) ==
    IF ~dec.ok
    THEN [err |-> "decode", hit |-> FALSE, files |-> sel.files, stack |-> st,
          target |-> sel.target]
    ELSE IF fail = "encode"
    THEN [err |-> "encode", hit |-> TRUE, files |-> sel.files, stack |-> st,
          target |-> sel.target]
    ELSE IF fail = "write"
    THEN [err |-> "io", hit |-> TRUE,
          files |-> SetFile(sel.files, sel.target,
                            Partial(EncodeArray(MergeLogs(dec.recs, st)), cut), clk),
          stack |-> st, target |-> sel.target]
    ELSE IF fail = "truncate"
    THEN AfterTruncate(TRUE, sel.files[sel.target].bytes, dec, sel, st, clk)
    ELSE AfterTruncate(FALSE, sel.files[sel.target].bytes, dec, sel, st, clk)

\* flush, once findLatestFile has returned sel
FlushOpened(sel, st, clk, fail, cut) ==
    IF sel.err # ""
    THEN [err |-> sel.err, hit |-> sel.hit, files |-> sel.files, stack |-> st,
          target |-> NoFile]
    ELSE IF fail = "read"
    THEN [err |-> "io", hit |-> TRUE, files |-> sel.files, stack |-> st,
          target |-> sel.target]
    ELSE FlushRead(ReadPrevLogs(sel.files[sel.target].bytes), sel, st, clk, fail, cut)

\* the files findLatestFile hands to flush open
Opened(sel) == IF sel.err = "" THEN 1 ELSE 0

\* a flush that closes lf only when it ends well
CloseOnSuccess(sel, err) == IF sel.err = "" /\ err = "" THEN 1 ELSE 0

\* the deferred lf.Close(): it runs on every return of flush that comes
\* after findLatestFile has handed it a file
DeferredClose(sel, err) == IF sel.err = "" THEN 1 ELSE 0

\* flush with the files it opens and closes counted
FlushCounted(sel, st, clk, fail, cut) ==
    FlushOpened(sel, st, clk, fail, cut)
        @@ [opened |-> Opened(sel),
            closed |-> DeferredClose(sel, FlushOpened(sel, st, clk, fail, cut).err)]

Flush(fs, st, now, clk, fail, cut) ==
    FlushCounted(FindLatestFile(fs, now, clk, fail), st, clk, fail, cut)

\* ---------------------------------------------------------------- write
\* a threshold test that never calls for a flush
AtThresholdNever(st) == FALSE

\* a threshold test that is off by one, late and early
AtThresholdLate(st) == Len(st) > MaxStackSize

AtThresholdEarly(st) == Len(st) >= MaxStackSize - 1

\* the threshold test of Write
AtThreshold(st) == Len(st) >= MaxStackSize

\* the first result of a successful Write
WriteCount(b, st) == Len(st)

\* a Write that does not hand the error of flush to its caller
WriteFlushedSwallow(f, rec, b) ==
    [n |-> WriteCount(b, f.stack), err |-> "", hit |-> f.hit, flushed |-> TRUE,
     files |-> f.files, stack |-> f.stack, target |-> f.target, rec |-> rec,
          opened |-> f.opened, closed |-> f.closed]

\* Write, once flush has returned f
WriteFlushed(f, rec, b) ==
    IF f.err # ""
    THEN [n |-> 0, err |-> f.err, hit |-> f.hit, flushed |-> TRUE,
          files |-> f.files, stack |-> f.stack, target |-> f.target, rec |-> rec,
          opened |-> f.opened, closed |-> f.closed]
    ELSE [n |-> WriteCount(b, f.stack), err |-> "", hit |-> f.hit, flushed |-> TRUE,
          files |-> f.files, stack |-> f.stack, target |-> f.target, rec |-> rec,
          opened |-> f.opened, closed |-> f.closed]

\* Write, once json.Unmarshal has returned dec
WriteDecoded(dec, fs, st, now, clk, b, fail, cut) ==
    IF ~dec.ok
    THEN [n |-> 0, err |-> "decode", hit |-> FALSE, flushed |-> FALSE,
          files |-> fs, stack |-> st, target |-> NoFile, rec |-> NoRec,
          opened |-> 0, closed |-> 0]
    ELSE IF AtThreshold(Append(st, dec.rec))
    THEN WriteFlushed(Flush(fs, Append(st, dec.rec), now, clk, fail, cut), dec.rec, b)
    ELSE [n |-> WriteCount(b, Append(st, dec.rec)), err |-> "", hit |-> FALSE,
          flushed |-> FALSE, files |-> fs, stack |-> Append(st, dec.rec),
          target |-> NoFile, rec |-> dec.rec, opened |-> 0, closed |-> 0]

\* hit: the failure named by fail happened; flushed: flush was called
WriteResult(fs, st, now, clk, b, fail, cut) ==
    WriteDecoded(DecodeRecord(b), fs, st, now, clk, b, fail, cut)

\* ---------------------------------------------------------------- report
RECURSIVE FilterFrom(_, _, _, _)
FilterFrom(fs, now, d, days) ==
    IF d > days THEN <<>>
    ELSE Glob(fs, now - d) \o FilterFrom(fs, now, d + 1, days)

\* a window one day longer
FilterLogsWider(fs, now, days, sev) == FilterFrom(fs, now, 0, days + 1)

\* a window that leaves out its last day
FilterLogsExclusive(fs, now, days, sev) == FilterFrom(fs, now, 0, days - 1)

FilterLogs(fs, now, days, sev) == FilterFrom(fs, now, 0, days)

HasEntry(lr, date, wp) == date \in DOMAIN lr /\ wp \in DOMAIN lr[date]

\* lr[date][wp] = append(lr[date][wp], recs...)
AddEntry(lr, date, wp, recs) ==
    LET old == IF HasEntry(lr, date, wp) THEN lr[date][wp] ELSE <<>>
    IN [d \in DOMAIN lr \cup {date} |->
          IF d = date THEN [w \in {wp} |-> old \o recs] ELSE lr[d]]

\* a scan that takes what a file holds whether or not os.ReadFile failed
ScanFileAnyway(fs, log, wp, unreadable, lr) ==
    IF ~DecodeArray(fs[log].bytes).ok
    THEN lr
    ELSE AddEntry(lr, log.date, wp, DecodeArray(fs[log].bytes).recs)

\* one turn of the loop of getLogs: a file that cannot be read or decoded is
\* passed over; unreadable: the files os.ReadFile fails on in this call
ScanFile(fs, log, wp, unreadable, lr) ==
    IF log \in unreadable \/ ~DecodeArray(fs[log].bytes).ok
    THEN lr
    ELSE AddEntry(lr, log.date, wp, DecodeArray(fs[log].bytes).recs)

\* the loop of getLogs over the matched files
RECURSIVE ScanLogs(_, _, _, _, _)
ScanLogs(fs, logs, wp, unreadable, lr) ==
    IF logs = <<>> THEN lr
    ELSE ScanLogs(fs, Tail(logs), wp, unreadable,
                  ScanFile(fs, Head(logs), wp, unreadable, lr))

\* the buffer put in front of the records read from the files
MergeStackPrepend(lr, st, now, wp) ==
    IF Len(st) > 0 /\ HasEntry(lr, now, wp)
    THEN [d \in DOMAIN lr |-> IF d = now THEN [w \in {wp} |-> st \o lr[now][wp]] ELSE lr[d]]
    ELSE lr

\* the buffer appended to today's entry, which is made when there is none
MergeStackAlways(lr, st, now, wp) ==
    IF Len(st) > 0 THEN AddEntry(lr, now, wp, st) ELSE lr

\* the buffer is appended to today's entry, when there is one
MergeStack(lr, st, now, wp) ==
    IF Len(st) > 0 /\ HasEntry(lr, now, wp)
    THEN AddEntry(lr, now, wp, st)
    ELSE lr

\* a report that keeps the records of the level asked for
GetLogsBySeverity(fs, st, now, days, wp, sev, unreadable) ==
    LET lr == MergeStack(ScanLogs(fs, FilterLogs(fs, now, days, sev), wp, unreadable,
                                  NoReport), st, now, wp)
        Asked(r) == sev = "" \/ Level(r) = sev
    IN [d \in DOMAIN lr |-> [w \in DOMAIN lr[d] |-> SelectSeq(lr[d][w], Asked)]]

GetLogs(fs, st, now, days, wp, sev, unreadable) ==
    MergeStack(ScanLogs(fs, FilterLogs(fs, now, days, sev), wp, unreadable, NoReport),
               st, now, wp)

\* ---------------------------------------------------------------- sequential calls
\* total, nextId, events run over the whole run; the other fields describe
\* the logger constructed last: records appended to its buffer, whether a
\* write was rejected, writes that returned no error, flush calls, failed
\* flush calls, the appended records whose write called flush, whether the
\* directory was empty and the date when the logger was constructed
NewHistory(total, nextId, events, fs, now) ==
    [total |-> total, nextId |-> nextId, events |-> events,
     accepted |-> 0, rejected |-> FALSE, ok |-> 0, flushes |-> 0, errs |-> 0,
     trig |-> {}, fresh |-> (DOMAIN fs = {}), ctorDay |-> now]

\* main has constructed the logger of the tests over an empty directory
Init ==
    /\ stack = <<>>
    /\ files = <<>>
    /\ today = 0
    /\ clock = 1
    /\ name = LoggerName
    /\ logger = LoggerName
    /\ cfg = DefaultConfig
    /\ others = [f \in Folders |-> <<>>]
    /\ handles = 0
    /\ ret = NoRet
    /\ h = NewHistory(0, 1, 0, <<>>, 0)
    /\ pc = [t \in Threads |-> "idle"]
    /\ wmu = "free"
    /\ lmu = "free"
    /\ loc = [t \in Threads |-> NoLocals]

\* no call has a result pending
Idle == ret.op = "none"

\* what a caller may hand to Write: one encoded record, or bytes that are not
\* one JSON object
Inputs ==
    {EncodeRecord([id |-> h.nextId, day |-> today, big |-> bg]) :
        bg \in {b \in BOOLEAN : b => h.events < MaxEvents}}
    \cup {<<>>, <<LB>>}

\* json.Marshal of records that json.Unmarshal produced cannot fail; "encode"
\* stands for the branch of flush that handles it all the same
FailKinds == {"none", "stat", "open", "read", "encode", "truncate", "write"}

Severities == {"", "error", "debug"}

Range(s) == {s[i] : i \in 1..Len(s)}

\* the exceptional events of one write call
WriteEvents(w, fail) ==
    (IF w.rec.big THEN 1 ELSE 0) + (IF fail # "none" THEN 1 ELSE 0)

AfterWrite(hist, w, fail) ==
    [hist EXCEPT !.total = IF w.rec # NoRec THEN @ + 1 ELSE @,
                 !.nextId = IF w.rec # NoRec THEN @ + 1 ELSE @,
                 !.events = @ + WriteEvents(w, fail),
                 !.accepted = IF w.rec # NoRec THEN @ + 1 ELSE @,
                 !.rejected = @ \/ w.rec = NoRec,
                 !.ok = IF w.err = "" THEN @ + 1 ELSE @,
                 !.flushes = IF w.flushed THEN @ + 1 ELSE @,
                 !.errs = IF w.flushed /\ w.err # "" THEN @ + 1 ELSE @,
                 !.trig = IF w.flushed THEN @ \cup {hist.accepted + 1} ELSE @]

\* one call of logFileWriter.Write, from Lock to Unlock, with result w, in a
\* run of at most maxWrites accepted writes and maxEvents exceptional events
WriteReturns(w, b, fail, cut, maxWrites, maxEvents) ==
    /\ Idle
    /\ logger # Nil
    /\ w.rec # NoRec => h.total < maxWrites
    /\ fail # "none" => w.hit
    /\ WriteEvents(w, fail) > 0 => h.events + WriteEvents(w, fail) <= maxEvents
    /\ (fail # "write" \/ ~w.hit) => cut = 0
    /\ stack' = w.stack
    /\ files' = w.files
    /\ clock' = IF w.files # files THEN clock + 1 ELSE clock
    /\ ret' = [NoRet EXCEPT !.op = "write", !.b = b, !.fail = fail, !.n = w.n,
                            !.err = w.err, !.flushed = w.flushed,
                            !.target = w.target, !.rec = w.rec]
    /\ h' = AfterWrite(h, w, fail)
    /\ handles' = handles + w.opened - w.closed
    /\ UNCHANGED <<today, name>>
    /\ UNCHANGED <<gvars, cvars>>

WriteWithin(b, fail, cut, maxWrites, maxEvents) ==
    WriteReturns(WriteResult(files, stack, today, clock, b, fail, cut), b, fail, cut,
                 maxWrites, maxEvents)

Write(b, fail, cut) == WriteWithin(b, fail, cut, MaxWrites, MaxEvents)

\* one call of DCSlogger.GetLogs
GetLogsCall(days, sev, unreadable) ==
    /\ Idle
    /\ logger # Nil
    /\ ret' = [NoRet EXCEPT !.op = "getLogs", !.days = days, !.sev = sev,
                            !.unreadable = unreadable,
                            !.report = GetLogs(files, stack, today, days, name, sev,
                                               unreadable)]
    /\ UNCHANGED <<stack, files, today, clock, name, h>>
    /\ UNCHANGED <<qvars, cvars>>

\* a constructor that keeps the first logger as the singleton
SetLoggerOnce(lg, nm) == IF lg = Nil THEN nm ELSE lg

\* logger = &DCSlogger{name: name, ...}
SetLogger(lg, nm) == nm

\* a constructor that empties the folder
OpenFolderFresh(nm, lc) == <<>>

\* the directory a logger constructed with nm and lc works in: the one of the
\* logger before it when the folder is the same
OpenFolder(nm, lc) ==
    IF logger = Nil \/ Folder(lc.dir, nm) = Folder(cfg.dir, name)
    THEN files
    ELSE others[Folder(lc.dir, nm)]

\* NewDCSlogger(name, lc): a new buffer, writer and reporter over the folder
\* lc.Dir()/name, and the package variable logger set; lc is not examined
NewDCSlogger(nm, lc) ==
    /\ Idle
    /\ logger # Nil => h.events < MaxEvents
    /\ stack' = <<>>
    /\ name' = nm
    /\ logger' = SetLogger(logger, nm)
    /\ cfg' = lc
    /\ files' = OpenFolder(nm, lc)
    /\ others' = IF logger = Nil \/ Folder(lc.dir, nm) = Folder(cfg.dir, name)
                 THEN others
                 ELSE [others EXCEPT ![Folder(cfg.dir, name)] = files,
                                     ![Folder(lc.dir, nm)] = <<>>]
    /\ ret' = [NoRet EXCEPT !.op = "new", !.lname = nm]
    /\ h' = NewHistory(h.total, h.nextId, h.events + (IF logger = Nil THEN 0 ELSE 1),
                       OpenFolder(nm, lc), today)
    /\ UNCHANGED <<today, clock, handles>>
    /\ UNCHANGED cvars

\* Provide and Name() of what it returns
ProvideResult(lg) ==
    IF lg = Nil THEN [panic |-> TRUE, lname |-> ""] ELSE [panic |-> FALSE, lname |-> lg]

\* one call of Provide, a panic recovered by the caller
Provide ==
    /\ Idle
    /\ ret' = [NoRet EXCEPT !.op = "provide", !.panic = ProvideResult(logger).panic,
                            !.lname = ProvideResult(logger).lname]
    /\ UNCHANGED <<stack, files, today, clock, name, h>>
    /\ UNCHANGED <<qvars, cvars>>

\* midnight, in a run of at most maxEvents exceptional events
NextDayWithin(maxEvents) ==
    /\ Idle
    /\ today < MaxDay
    /\ h.events < maxEvents
    /\ today' = today + 1
    /\ h' = [h EXCEPT !.events = @ + 1]
    /\ UNCHANGED <<stack, files, clock, name, ret>>
    /\ UNCHANGED <<qvars, cvars>>

\* the caller takes the result of the call that returned and goes on
Return ==
    /\ ~Idle
    /\ ret' = NoRet
    /\ UNCHANGED <<stack, files, today, clock, name, h>>
    /\ UNCHANGED <<qvars, cvars>>

NextDay == NextDayWithin(MaxEvents)

Next ==
    \/ \E b \in Inputs, fail \in FailKinds, cut \in 0..2 : Write(b, fail, cut)
    \/ \E days \in 0..MaxDaysBack, sev \in Severities :
         \E unreadable \in {u \in SUBSET Range(FilterLogs(files, today, days, sev)) :
                                 Cardinality(u) <= 1} :
            GetLogsCall(days, sev, unreadable)
    \/ NewDCSlogger(LoggerName, DefaultConfig)
    \/ NextDay
    \/ Return

Spec == Init /\ [][Next]_vars

\* ---------------------------------------------------------------- program start
\* The program from before its first NewDCSlogger: loggers are constructed
\* with every name and configuration, asked for with Provide and written to.
\* No I/O failure is injected here.

\* the program before main: no logger, empty directories
InitStart ==
    /\ stack = <<>>
    /\ files = <<>>
    /\ today = 0
    /\ clock = 1
    /\ name = ""
    /\ logger = Nil
    /\ cfg = NoConfig
    /\ others = [f \in Folders |-> <<>>]
    /\ handles = 0
    /\ ret = NoRet
    /\ h = NewHistory(0, 1, 0, <<>>, 0)
    /\ pc = [t \in Threads |-> "idle"]
    /\ wmu = "free"
    /\ lmu = "free"
    /\ loc = [t \in Threads |-> NoLocals]

NextStart ==
    \/ \E nm \in Names, lc \in Configs : NewDCSlogger(nm, lc)
    \/ Provide
    \/ \E b \in Inputs : h.total < MaxStartWrites /\ Write(b, "none", 0)
    \/ Return

SpecStart == InitStart /\ [][NextStart]_vars

\* ---------------------------------------------------------------- failure and retry
\* One logger written to over a few calls in which more can go wrong: a flush
\* that fails and the flushes that come after it, with a very long record or
\* a date change in between.

NextRetry ==
    \/ \E b \in Inputs, fail \in FailKinds, cut \in 0..2 :
         WriteWithin(b, fail, cut, MaxRetryWrites, MaxRetryEvents)
    \/ NextDayWithin(MaxRetryEvents)
    \/ Return

SpecRetry == Init /\ [][NextRetry]_vars

\* ---------------------------------------------------------------- arriving writes
\* One logger written to with no I/O failure; a call that has returned is
\* always taken up by its caller.

NextLive ==
    \/ \E b \in Inputs : WriteWithin(b, "none", 0, MaxLiveWrites, MaxEvents)
    \/ NextDay
    \/ Return

SpecLive == Init /\ [][NextLive]_vars /\ WF_vars(Return)

\* ---------------------------------------------------------------- concurrent calls
\* Goroutines call Write (through the slog handler) and GetLogs; each step
\* below is one stretch of the code between two points where another
\* goroutine can be seen to run.  No I/O failure is injected here.

\* a lock that never makes anyone wait
CanLockAlways(mu) == TRUE

\* Lock of a sync.Mutex: only when nobody holds it
CanLock(mu) == mu = "free"

SetLoc(t, l) == [loc EXCEPT ![t] = l]

Goto(t, label) == [pc EXCEPT ![t] = label]

\* Write: esw.Lock()
CWriteLock(t, b) ==
    /\ pc[t] = "idle"
    /\ CanLock(wmu)
    /\ DecodeRecord(b).ok => h.total < MaxConcWrites
    /\ DecodeRecord(b).rec.big => h.events < MaxEvents
    /\ wmu' = t
    /\ pc' = Goto(t, "append")
    /\ loc' = SetLoc(t, [NoLocals EXCEPT !.b = b])
    /\ UNCHANGED <<stack, files, today, clock, name, logger, cfg, others, handles, ret, h, lmu>>

\* Write: json.Unmarshal, append to the stack, the threshold test
CWriteAppend(t) ==
    LET dec == DecodeRecord(loc[t].b)
        st1 == Append(stack, dec.rec)
    IN /\ pc[t] = "append"
       /\ IF ~dec.ok
          THEN /\ loc' = SetLoc(t, [loc[t] EXCEPT !.err = "decode"])
               /\ pc' = Goto(t, "unlock")
               /\ UNCHANGED <<stack, h>>
          ELSE /\ stack' = st1
               /\ loc' = SetLoc(t, [loc[t] EXCEPT !.rec = dec.rec])
               /\ pc' = Goto(t, IF AtThreshold(st1) THEN "flush" ELSE "unlock")
               /\ h' = [h EXCEPT !.total = @ + 1, !.nextId = @ + 1, !.accepted = @ + 1,
                                 !.events = IF dec.rec.big THEN @ + 1 ELSE @]
       /\ UNCHANGED <<files, today, clock, name, logger, cfg, others, handles, ret, wmu, lmu>>

\* flush: findLatestFile, io.ReadAll, json.Unmarshal of the old content
CFlushRead(t) ==
    LET sel == FindLatestFile(files, today, clock, "none")
        dec == ReadPrevLogs(sel.files[sel.target].bytes)
    IN /\ pc[t] = "flush"
       /\ files' = sel.files
       /\ clock' = IF sel.files # files THEN clock + 1 ELSE clock
       /\ IF ~dec.ok
          THEN /\ loc' = SetLoc(t, [loc[t] EXCEPT !.err = "decode", !.lf = sel.target])
               /\ pc' = Goto(t, "unlock")
               /\ handles' = handles + Opened(sel) - DeferredClose(sel, "decode")
          ELSE /\ loc' = SetLoc(t, [loc[t] EXCEPT !.lf = sel.target, !.prevLogs = dec.recs])
               /\ pc' = Goto(t, "rewrite")
               /\ handles' = handles + Opened(sel)
       /\ UNCHANGED <<stack, today, name, logger, cfg, others, ret, h, wmu, lmu>>

\* flush: append the stack to prevLogs, json.Marshal, Truncate, Seek, Write
CFlushWrite(t) ==
    /\ pc[t] = "rewrite"
    /\ files' = SetFile(files, loc[t].lf,
                        EncodeArray(MergeLogs(loc[t].prevLogs, stack)), clock)
    /\ clock' = clock + 1
    /\ pc' = Goto(t, "clear")
    /\ UNCHANGED <<stack, today, name, logger, cfg, others, handles, ret, h, wmu, lmu, loc>>

\* flush: the stack is reset to length 0, and the deferred lf.Close()
CFlushClear(t) ==
    /\ pc[t] = "clear"
    /\ stack' = ClearStack(stack)
    /\ pc' = Goto(t, "unlock")
    /\ handles' = handles - 1
    /\ UNCHANGED <<files, today, clock, name, logger, cfg, others, ret, h, wmu, lmu, loc>>

\* Write: the deferred esw.Unlock()
CWriteUnlock(t) ==
    /\ pc[t] = "unlock"
    /\ wmu' = "free"
    /\ pc' = Goto(t, "idle")
    /\ UNCHANGED <<stack, files, today, clock, name, logger, cfg, others, handles, ret, h, lmu, loc>>

\* GetLogs: l.Lock()
CGetLogsLock(t, days, sev) ==
    /\ pc[t] = "idle"
    /\ CanLock(lmu)
    /\ lmu' = t
    /\ pc' = Goto(t, "scan")
    /\ loc' = SetLoc(t, [NoLocals EXCEPT !.days = days, !.sev = sev])
    /\ UNCHANGED <<stack, files, today, clock, name, logger, cfg, others, handles, ret, h, wmu>>

\* getLogs: filterLogs and the loop over the matched files
CGetLogsScan(t) ==
    /\ pc[t] = "scan"
    /\ loc' = SetLoc(t, [loc[t] EXCEPT !.lr =
                 ScanLogs(files, FilterLogs(files, today, loc[t].days, loc[t].sev),
                          name, {}, NoReport)])
    /\ pc' = Goto(t, "merge")
    /\ UNCHANGED <<stack, files, today, clock, name, logger, cfg, others, handles, ret, h, wmu, lmu>>

\* getLogs: the stack is read and appended to today's entry
CGetLogsMerge(t) ==
    /\ pc[t] = "merge"
    /\ loc' = SetLoc(t, [loc[t] EXCEPT !.lr = MergeStack(loc[t].lr, stack, today, name)])
    /\ pc' = Goto(t, "runlock")
    /\ UNCHANGED <<stack, files, today, clock, name, logger, cfg, others, handles, ret, h, wmu, lmu>>

\* GetLogs: the deferred l.Unlock()
CGetLogsUnlock(t) ==
    /\ pc[t] = "runlock"
    /\ lmu' = "free"
    /\ pc' = Goto(t, "idle")
    /\ UNCHANGED <<stack, files, today, clock, name, logger, cfg, others, handles, ret, h, wmu, loc>>

NextConc ==
    \/ \E t \in Writers, b \in Inputs : CWriteLock(t, b)
    \/ \E t \in Writers : CWriteAppend(t)
    \/ \E t \in Writers : CFlushRead(t)
    \/ \E t \in Writers : CFlushWrite(t)
    \/ \E t \in Writers : CFlushClear(t)
    \/ \E t \in Writers : CWriteUnlock(t)
    \/ \E t \in Readers : CGetLogsLock(t, 0, "")
    \/ \E t \in Readers : CGetLogsScan(t)
    \/ \E t \in Readers : CGetLogsMerge(t)
    \/ \E t \in Readers : CGetLogsUnlock(t)

SpecConc == Init /\ [][NextConc]_vars

\* ================================================================ properties
\* the records a file decodes to (none when it does not decode)
FileRecs(fs, f) ==
    IF f \in DOMAIN fs /\ DecodeArray(fs[f].bytes).ok
    THEN DecodeArray(fs[f].bytes).recs
    ELSE <<>>

Ids(recs) == [i \in DOMAIN recs |-> recs[i].id]

\* the step is one call of Write returning
WriteStep == ret.op = "none" /\ ret'.op = "write"

\* ---------------------------------------------------------------- C1
\* C1 as stated: whenever a write has returned the buffer holds fewer than
\* MaxStackSize records, and it never holds more than MaxStackSize records.
C1_BufferAlwaysBelowThreshold ==
    /\ ret.op = "write" => Len(stack) < MaxStackSize
    /\ Len(stack) <= MaxStackSize

\* C1 amended: whenever a write has returned without error the buffer holds
\* fewer than MaxStackSize records; and as long as no flush of the logger has
\* failed the buffer holds fewer than MaxStackSize records between calls, so
\* at most MaxStackSize inside a write.  (A failed flush leaves the buffer as
\* it is, and later writes grow it past MaxStackSize.)
C1_BufferBelowThresholdUnlessFlushFailed ==
    /\ (ret.op = "write" /\ ret.err = "") => Len(stack) < MaxStackSize
    /\ h.errs = 0 => Len(stack) < MaxStackSize

\* a write reached the threshold, flushed and left the buffer empty
C1_Witness == ret.op = "write" /\ ret.flushed /\ ret.err = "" /\ stack = <<>>

\* ---------------------------------------------------------------- C2
\* C2: a write calls flush if and only if the buffer, with the write's record
\* appended, has reached MaxStackSize; a write that stays below the threshold
\* leaves every file as it was; and once MaxStackSize writes of a logger have
\* returned without error, the directory holds at least one file.
C2_FlushExactlyAtThreshold ==
    /\ [][(WriteStep /\ DecodeRecord(ret'.b).ok) =>
            /\ ret'.flushed <=> Len(stack) + 1 >= MaxStackSize
            /\ h'.flushes = h.flushes + (IF Len(stack) + 1 >= MaxStackSize THEN 1 ELSE 0)
            /\ Len(stack) + 1 < MaxStackSize => files' = files]_vars
    /\ [](h.ok >= MaxStackSize => DOMAIN files # {})

\* the MaxStackSize-th write of a logger has flushed and a file exists
C2_Witness ==
    /\ ret.op = "write" /\ ret.flushed
    /\ h.accepted = MaxStackSize /\ h.ok = MaxStackSize
    /\ DOMAIN files # {}

\* ---------------------------------------------------------------- C3
\* C3: right after a successful flush the target file decodes to the records
\* it held before the flush followed by the buffer's records, in buffer order.
C3_FlushPreservesContent ==
    [][(WriteStep /\ ret'.flushed /\ ret'.err = "") =>
          /\ ret'.target \in DOMAIN files'
          /\ DecodeArray(files'[ret'.target].bytes).ok
          /\ DecodeArray(files'[ret'.target].bytes).recs
               = FileRecs(files, ret'.target) \o Append(stack, ret'.rec)]_vars

\* a successful flush onto a file that already held records
C3_Witness ==
    /\ ret.op = "write" /\ ret.flushed /\ ret.err = ""
    /\ Len(FileRecs(files, ret.target)) > MaxStackSize

\* ---------------------------------------------------------------- C4
\* the file flush would open holds bytes that do not decode
CorruptTarget ==
    LET t == TargetName(files, today)
    IN t \in DOMAIN files /\ files[t].bytes # <<>> /\ ~DecodeArray(files[t].bytes).ok

\* the steps of flush whose error flush looks at
FlushErrors == {"stat", "open", "read", "encode", "write"}

\* C4: when the flush a write triggers fails at any step (target selection,
\* read, decode, encode, write), the write returns that error, flush is
\* called once, and the buffer holds what it held before plus the record
\* the write appended.
C4_FailedFlushKeepsBuffer ==
    [][(WriteStep /\ ret'.flushed /\ (ret'.fail \in FlushErrors \/ CorruptTarget)) =>
          /\ ret'.err # ""
          /\ ret'.fail \in {"stat", "open", "read", "write"} => ret'.err = "io"
          /\ ret'.fail = "encode" => ret'.err = "encode"
          /\ ret'.fail \notin FlushErrors => ret'.err = "decode"
          /\ ret'.n = 0
          /\ h'.flushes = h.flushes + 1
          /\ stack' = Append(stack, ret'.rec)]_vars

\* a write whose flush failed has returned, the buffer still at the threshold
C4_Witness ==
    /\ ret.op = "write" /\ ret.flushed /\ ret.err # ""
    /\ Len(stack) >= MaxStackSize
    /\ stack[Len(stack)] = ret.rec

\* ---------------------------------------------------------------- C5
\* the bytes are not the encoding of one record
Malformed(b) == Len(b) # 1 \/ b[1].t # "rec"

\* C5: a write whose input does not decode as one record fails with a decode
\* error, leaves the buffer as it was, calls no flush and changes no file.
C5_MalformedWriteChangesNothing ==
    [][(WriteStep /\ Malformed(ret'.b)) =>
          /\ ret'.err = "decode"
          /\ ret'.n = 0
          /\ ~ret'.flushed
          /\ h'.flushes = h.flushes
          /\ stack' = stack
          /\ files' = files]_vars

\* a malformed write was rejected with the buffer one short of the threshold
C5_Witness ==
    /\ ret.op = "write" /\ ret.b = <<LB>> /\ ret.err = "decode"
    /\ Len(stack) = MaxStackSize - 1

\* ---------------------------------------------------------------- C6
\* C6 as stated: once today's file is full the next flush makes the file with
\* the next index and every later flush of the date goes to that file; only
\* the highest-index file of today is ever appended to.
C6_OnlyHighestIndexAppended ==
    (ret.op = "write" /\ ret.flushed /\ ret.err = "") =>
        \A f \in DirEntries(files, today) : f.idx <= ret.target.idx

\* ---------------------------------------------------------------- C7
\* C7 as stated: one lock serializes report reads with writes: no getLogs
\* call is reading the files or the buffer while a write is between its Lock
\* and the end of its append or flush.
C7_ReportsSerializedWithWrites ==
    \A r \in Readers, w \in Writers :
        ~(pc[r] \in {"scan", "merge"} /\ pc[w] \in {"append", "flush", "rewrite", "clear"})

\* ---------------------------------------------------------------- C8
\* six records written to a logger made over an empty directory, with no
\* malformed write, no failed flush and no midnight in between
SixWritten ==
    /\ h.fresh /\ ~h.rejected /\ h.errs = 0 /\ today = h.ctorDay
    /\ h.accepted = MaxStackSize + 1

\* C8: from an empty directory, writing 6 records causes exactly one flush,
\* by the 5th write; then the file holds the first 5 records, the buffer the
\* 6th, and getLogs(0, "") returns the 6 records under today's date.
C8_SixWritesOneFlush ==
    SixWritten =>
        LET first == h.nextId - (MaxStackSize + 1)
            f0 == FileName(today, 0)
        IN /\ h.flushes = 1
           /\ h.trig = {MaxStackSize}
           /\ DOMAIN files = {f0}
           /\ DecodeArray(files[f0].bytes).ok
           /\ Ids(DecodeArray(files[f0].bytes).recs) = [i \in 1..MaxStackSize |-> first + i - 1]
           /\ Ids(stack) = <<first + MaxStackSize>>
           /\ (ret.op = "getLogs" /\ ret.days = 0 /\ ret.sev = "" /\ ret.unreadable = {}) =>
                 /\ DOMAIN ret.report = {today}
                 /\ DOMAIN ret.report[today] = {name}
                 /\ Ids(ret.report[today][name])
                      = [i \in 1..(MaxStackSize + 1) |-> first + i - 1]

\* getLogs(0, "") has returned after the six writes
C8_Witness ==
    SixWritten /\ ret.op = "getLogs" /\ ret.days = 0 /\ ret.sev = "" /\ ret.unreadable = {}

\* ---------------------------------------------------------------- C9
\* exactly MaxStackSize records written to the logger and flushed by its one
\* flush, on the date it still is
FlushedOnce ==
    h.accepted = MaxStackSize /\ h.flushes = 1 /\ h.errs = 0 /\ today = h.ctorDay

\* recs holds the records numbered from..from+n-1 next to each other, in order
HoldsRun(recs, from, n) ==
    \E k \in 0..(Len(recs) - n) : \A i \in 1..n : recs[k + i].id = from + i - 1

\* C9: after exactly MaxStackSize records have been written (one flush, no more
\* writes) getLogs returns a non-empty report holding those records, in
\* order, under today's date and the logger's name; and getLogs is non-empty
\* whenever a file of today that can be read and decoded exists, whichever
\* logger wrote it.
C9_ReportCompleteness ==
    ret.op = "getLogs" =>
        /\ (FlushedOnce /\ ret.unreadable = {}) =>
              /\ ret.report # NoReport
              /\ HasEntry(ret.report, today, name)
              /\ HoldsRun(ret.report[today][name], h.nextId - MaxStackSize, MaxStackSize)
        /\ (\E f \in DirEntries(files, today) :
                f \notin ret.unreadable /\ DecodeArray(files[f].bytes).ok)
              => DOMAIN ret.report # {}

\* getLogs(0, _) has returned after the one flush of a logger
C9_Witness ==
    ret.op = "getLogs" /\ ret.days = 0 /\ FlushedOnce /\ ret.unreadable = {}

\* ---------------------------------------------------------------- C10
\* the records the scan reads from the given files, in the order of the files
RECURSIVE ScanRecs(_, _)
ScanRecs(logs, unreadable) ==
    IF logs = <<>> THEN <<>>
    ELSE (IF Head(logs) \in unreadable THEN <<>> ELSE FileRecs(files, Head(logs)))
         \o ScanRecs(Tail(logs), unreadable)

\* the scan makes an entry for today: a file of today is read and decodes
ScanFindsToday(unreadable) ==
    \E f \in DirEntries(files, today) :
        f \notin unreadable /\ DecodeArray(files[f].bytes).ok

\* C10: when the buffer is not empty and the scan of the files has made an
\* entry for today and the logger's name, getLogs returns for that entry the
\* records read from today's files followed by the buffer, in buffer order.
C10_BufferAppendedToTodaysEntry ==
    (ret.op = "getLogs" /\ Len(stack) > 0 /\ ScanFindsToday(ret.unreadable)) =>
        /\ HasEntry(ret.report, today, name)
        /\ ret.report[today][name] = ScanRecs(Glob(files, today), ret.unreadable) \o stack

\* getLogs has returned with records in the buffer and in a file of today
C10_Witness ==
    /\ ret.op = "getLogs" /\ Len(stack) > 0 /\ ScanFindsToday(ret.unreadable)
    /\ Len(ScanRecs(Glob(files, today), ret.unreadable)) > 0

\* ---------------------------------------------------------------- C11
\* the records of all entries of a report
ReportRecs(lr) == UNION {UNION {Range(lr[d][w]) : w \in DOMAIN lr[d]} : d \in DOMAIN lr}

\* C11: when no file of today is read and decoded by the scan, the report
\* getLogs returns has no entry for today, and no record of the buffer is in
\* any entry of the report.
C11_BufferDroppedWithoutTodaysEntry ==
    (ret.op = "getLogs" /\ ~ScanFindsToday(ret.unreadable)) =>
        /\ today \notin DOMAIN ret.report
        /\ \A i \in DOMAIN stack : stack[i] \notin ReportRecs(ret.report)

\* getLogs has returned yesterday's records, with records in the buffer and
\* no file of today
C11_Witness ==
    /\ ret.op = "getLogs" /\ ~ScanFindsToday(ret.unreadable)
    /\ Len(stack) > 0
    /\ DirEntries(files, today) = {}
    /\ ret.report # NoReport

\* ---------------------------------------------------------------- C12
\* C12: on the files, buffer and date getLogs has just returned a report for,
\* getLogs gives the same report for every severity filter.
C12_SeverityFilterIsNoOp ==
    ret.op = "getLogs" =>
        \A sev \in Severities :
            GetLogs(files, stack, today, ret.days, name, sev, ret.unreadable) = ret.report

\* getLogs(_, "error") has returned a report that holds a record logged at Debug
C12_Witness ==
    /\ ret.op = "getLogs" /\ ret.sev = "error"
    /\ \E r \in ReportRecs(ret.report) : Level(r) = "debug"

\* ---------------------------------------------------------------- C13
\* the records among the bytes of a file, decodable or not
RawRecs(bytes) == {bytes[i].r : i \in {j \in DOMAIN bytes : bytes[j].t = "rec"}}

\* the file is matched, read and decoded by the scan
Scanned(f, days, sev, unreadable) ==
    /\ f \in Range(FilterLogs(files, today, days, sev))
    /\ f \notin unreadable
    /\ DecodeArray(files[f].bytes).ok

\* the directory without the files the scan cannot read or decode
ReadableFiles(unreadable) ==
    [f \in {g \in DOMAIN files : g \notin unreadable /\ DecodeArray(files[g].bytes).ok}
        |-> files[f]]

\* C13: getLogs returns a report in every case, and it is the report it
\* would return if the matched files that cannot be read or decoded were not
\* there: such a file adds nothing, and every record of every other matched
\* file is in the report, under the date of its file.
C13_UnreadableFilesSkipped ==
    ret.op = "getLogs" =>
        /\ ret.report
             = GetLogs(ReadableFiles(ret.unreadable), stack, today, ret.days, name,
                       ret.sev, {})
        /\ \A f \in DOMAIN files :
              Scanned(f, ret.days, ret.sev, ret.unreadable) =>
                 /\ HasEntry(ret.report, f.date, name)
                 /\ RawRecs(files[f].bytes) \subseteq Range(ret.report[f.date][name])

\* getLogs has returned with one matched file that could not be read and
\* another whose records are reported
C13_Witness ==
    /\ ret.op = "getLogs"
    /\ \E f \in ret.unreadable : RawRecs(files[f].bytes) # {}
    /\ \E g \in DOMAIN files :
          Scanned(g, ret.days, ret.sev, ret.unreadable) /\ RawRecs(files[g].bytes) # {}

\* ---------------------------------------------------------------- C14
\* the dates today, today-1, ..., today-days
Window(days) == {today - d : d \in 0..days}

\* C14: the report has entries only for dates of the window; the entry of a
\* date holds the records of the files named for that date and of no other
\* file (then the buffer, for today), and there is one for every date of the
\* window with a file that is read and decoded.
C14_ReportWindow ==
    ret.op = "getLogs" =>
        /\ DOMAIN ret.report \subseteq Window(ret.days)
        /\ \A date \in DOMAIN ret.report :
              /\ DOMAIN ret.report[date] = {name}
              /\ ret.report[date][name]
                   = ScanRecs(Glob(files, date), ret.unreadable)
                     \o (IF date = today THEN stack ELSE <<>>)
        /\ \A f \in DOMAIN files :
              (f.date \in Window(ret.days) /\ Scanned(f, ret.days, ret.sev, ret.unreadable))
                 => f.date \in DOMAIN ret.report

\* getLogs(0, _) has returned today's records while a file of yesterday
\* holds records
C14_Witness ==
    /\ ret.op = "getLogs" /\ ret.days = 0
    /\ DOMAIN ret.report = {today}
    /\ \E f \in DOMAIN files : f.date = today - 1 /\ RawRecs(files[f].bytes) # {}

\* ---------------------------------------------------------------- C15
\* C15 as stated: a write that returns no error returns the number of bytes
\* of its input.
C15_WriteReturnsInputLength ==
    (ret.op = "write" /\ ret.err = "") => ret.n = ByteLen(ret.b)

\* ---------------------------------------------------------------- C16
\* the name the rotation selector would open if files were full at maxSize bytes
TargetNameFor(fs, now, maxSize) ==
    LET entries == Glob(fs, now)
        latestFile == LatestOf(fs, entries, NoFile, 0)
    IN IF Len(entries) > 0 /\ ByteLen(fs[latestFile].bytes) >= maxSize
       THEN FileName(now, Len(entries))
       ELSE FileName(now, 0)

\* C16 as stated: the rotation selector compares the size of the latest file
\* with the maximum file size of the configuration the logger was constructed
\* with: the file it selects is the one that threshold gives.
C16_ThresholdFromConfiguration ==
    logger # Nil => TargetName(files, today) = TargetNameFor(files, today, cfg.maxSize)

\* ---------------------------------------------------------------- C17
\* the configuration has no directory or a zero size threshold
BadConfig(lc) == lc.dir = "" \/ lc.maxSize = 0

\* C17 as stated: a logger constructed with a configuration that has no
\* directory or a zero size threshold accepts no record into its buffer and
\* makes no file.
C17_BadConfigurationRejected ==
    (logger # Nil /\ BadConfig(cfg)) =>
        /\ stack = <<>>
        /\ h.accepted = 0
        /\ h.flushes = 0

\* ---------------------------------------------------------------- C18
\* C18: Provide panics exactly when NewDCSlogger has never been called, and
\* in every other case the logger it returns has the name given to the
\* NewDCSlogger call made last.
C18_ProvideReturnsLatestLogger ==
    ret.op = "provide" =>
        /\ ret.panic <=> name = ""
        /\ ~ret.panic => ret.lname = name

\* Provide has returned the second logger, constructed after a logger of
\* another name had flushed to its folder
C18_Witness ==
    /\ ret.op = "provide" /\ ~ret.panic /\ ret.lname = "other"
    /\ \E f \in Folders : f.name = LoggerName /\ DOMAIN others[f] # {}

\* ---------------------------------------------------------------- C19
\* the record tokens among the bytes of a file, in order
RecToks(bytes) == SelectSeq(bytes, LAMBDA tok : tok.t = "rec")

\* C19 as stated: when a write whose flush succeeded has returned the buffer
\* is empty; and no record is held twice by the files: not twice by one file
\* and not by two files.
C19_NoRecordStoredTwice ==
    /\ (ret.op = "write" /\ ret.flushed /\ ret.err = "") => stack = <<>>
    /\ \A f \in DOMAIN files :
          Cardinality(RawRecs(files[f].bytes)) = Len(RecToks(files[f].bytes))
    /\ \A f, g \in DOMAIN files :
          f # g => RawRecs(files[f].bytes) \cap RawRecs(files[g].bytes) = {}

\* C19 amended: when a write whose flush succeeded has returned the buffer is
\* empty; no file holds a record twice; and no record is held by two files
\* that both decode.  (A rewrite that failed part-way leaves the records of
\* the buffer in a file that does not decode; when the next flush goes to
\* another file, after a rotation or a date change, they are stored again.)
C19_NoRecordDecodedTwice ==
    /\ (ret.op = "write" /\ ret.flushed /\ ret.err = "") => stack = <<>>
    /\ \A f \in DOMAIN files :
          Cardinality(RawRecs(files[f].bytes)) = Len(RecToks(files[f].bytes))
    /\ \A f, g \in DOMAIN files :
          f # g => Range(FileRecs(files, f)) \cap Range(FileRecs(files, g)) = {}

\* a flush has succeeded onto a second file after a flush that failed
C19_Witness ==
    /\ ret.op = "write" /\ ret.flushed /\ ret.err = "" /\ stack = <<>>
    /\ h.errs > 0
    /\ Cardinality(DOMAIN files) = 2
    /\ Len(FileRecs(files, ret.target)) > MaxStackSize

\* ---------------------------------------------------------------- C20
\* C20 as stated: when lf.Truncate fails in a flush, the write that called
\* the flush returns an I/O error and the buffer is not cleared.
C20_TruncateFailureFailsFlush ==
    (ret.op = "write" /\ ret.fail = "truncate") =>
        /\ ret.err = "io"
        /\ Len(stack) >= MaxStackSize

\* ---------------------------------------------------------------- C21
\* the file flush would open exists and is zero bytes long
EmptyTarget ==
    LET t == TargetName(files, today)
    IN t \in DOMAIN files /\ files[t].bytes = <<>>

\* C21: when the file the flush of a write opens holds bytes that do not
\* decode as a sequence of records, the write returns the decode error, no
\* file has changed in any byte, and the buffer holds what it held plus the
\* write's record; when that file is zero bytes long and nothing else fails,
\* the flush succeeds and leaves in it exactly the records of the buffer.
C21_CorruptTargetFailsFlush ==
    [][(WriteStep /\ ret'.flushed /\ ret'.fail = "none") =>
          /\ CorruptTarget =>
                /\ ret'.err = "decode"
                /\ files' = files
                /\ stack' = Append(stack, ret'.rec)
          /\ EmptyTarget =>
                /\ ret'.err = ""
                /\ ret'.target = TargetName(files, today)
                /\ FileRecs(files', ret'.target) = Append(stack, ret'.rec)
                /\ stack' = <<>>]_vars

\* a write has returned the decode error of a flush whose file holds bytes
\* that do not decode
C21_Witness ==
    /\ ret.op = "write" /\ ret.flushed /\ ret.fail = "none" /\ ret.err = "decode"
    /\ CorruptTarget
    /\ Len(stack) > MaxStackSize

\* ---------------------------------------------------------------- C22
\* C22 as stated: when files of today exist and the one modified last is
\* shorter than MaxFileSize, that file is the one findLatestFile opens.
C22_CandidateReused ==
    LET entries == Glob(files, today)
        latestFile == LatestOf(files, entries, NoFile, 0)
    IN (Len(entries) > 0 /\ ByteLen(files[latestFile].bytes) < MaxFileSize)
          => TargetName(files, today) = latestFile

\* ---------------------------------------------------------------- C23
\* the indices of the files of a date
Indices(fs, date) == {f.idx : f \in DirEntries(fs, date)}

\* C23: the indices of the files of every date are 0..n-1, n the number of
\* files of the date; and a write makes at most one file, of today, with
\* index n.
C23_IndicesDense ==
    /\ [](\A date \in Days :
            Indices(files, date) = 0..(Cardinality(DirEntries(files, date)) - 1))
    /\ [][\A f \in DOMAIN files' \ DOMAIN files :
            /\ DOMAIN files' = DOMAIN files \cup {f}
            /\ f = FileName(today, Cardinality(DirEntries(files, today)))]_vars

\* a rotation has made the second file of today
C23_Witness ==
    /\ ret.op = "write" /\ ret.flushed /\ ret.err = ""
    /\ ret.target = FileName(today, 1)
    /\ Indices(files, today) = {0, 1}

\* ---------------------------------------------------------------- C24
\* the goroutine is in Write between Lock and Unlock
InWrite(w) == pc[w] \in {"append", "flush", "rewrite", "clear", "unlock"}

\* the goroutine is in flush
InFlush(w) == pc[w] \in {"flush", "rewrite", "clear"}

\* C24: at most one goroutine is in Write between Lock and Unlock, and it is
\* the one that holds the writer's mutex: no two flushes overlap, and while
\* one goroutine is in flush no other is appending.
C24_WritesMutuallyExclusive ==
    /\ \A w \in Writers : InWrite(w) => wmu = w
    /\ \A v, w \in Writers : (v # w /\ InWrite(v)) => ~InWrite(w)
    /\ \A v, w \in Writers : (v # w /\ InFlush(v)) => pc[w] = "idle"

\* one goroutine is rewriting the file in a flush, after another goroutine
\* has written a record
C24_Witness ==
    \E v, w \in Writers :
        /\ v # w /\ pc[v] = "rewrite" /\ pc[w] = "idle"
        /\ loc[w].rec # NoRec

\* ---------------------------------------------------------------- C25
\* C25: the process holds no file open between calls: every file a write or
\* a getLogs call opened is closed when the call has returned.
C25_NoHandleOutlivesCall ==
    /\ handles = 0
    /\ ret.op \in {"write", "getLogs"} => handles = 0

\* a write has returned the error of a flush that had opened its file
C25_Witness ==
    /\ ret.op = "write" /\ ret.flushed /\ ret.err # ""
    /\ ret.target # NoFile
    /\ handles = 0

\* ---------------------------------------------------------------- C26
\* C26: no step removes a file, and a step that adds a file or changes the
\* bytes of one is a write that called flush: NewDCSlogger, writes below the
\* threshold, writes of malformed input and getLogs leave every file as it is.
C26_FilesChangeOnlyInFlush ==
    [][/\ DOMAIN files \subseteq DOMAIN files'
       /\ (\E f \in DOMAIN files' : f \notin DOMAIN files \/ files'[f].bytes # files[f].bytes)
             => (WriteStep /\ ret'.flushed)
       /\ ret'.op \in {"new", "getLogs"} => files' = files
       /\ (WriteStep /\ ~ret'.flushed) => files' = files]_vars

\* NewDCSlogger has returned with files in the folder
C26_Witness ==
    ret.op = "new" /\ DOMAIN files # {} /\ stack = <<>>

\* ---------------------------------------------------------------- C27
\* the places of the buffer and of the files that hold the record numbered id
StackPlaces(id) == {i \in DOMAIN stack : stack[i].id = id}

FilePlaces(id) ==
    {x \in UNION {{<<f, i>> : i \in DOMAIN files[f].bytes} : f \in DOMAIN files} :
        files[x[1]].bytes[x[2]].t = "rec" /\ files[x[1]].bytes[x[2]].r.id = id}

\* the records are in the order they were accepted in
InOrder(recs) == \A i, j \in DOMAIN recs : i < j => recs[i].id < recs[j].id

\* one logger has been written to and no flush of it has failed
OneLoggerNoFailure == h.errs = 0 /\ h.total = h.accepted

\* C27: as long as one logger is written to and no flush fails, every file
\* decodes, every accepted record is in one place and no more, a place of
\* the buffer or of one file, and the buffer and every file hold their
\* records in the order they were accepted in.
C27_EveryRecordInOnePlace ==
    OneLoggerNoFailure =>
        /\ \A f \in DOMAIN files : DecodeArray(files[f].bytes).ok
        /\ \A id \in 1..h.total :
              Cardinality(StackPlaces(id)) + Cardinality(FilePlaces(id)) = 1
        /\ InOrder(stack)
        /\ \A f \in DOMAIN files : InOrder(FileRecs(files, f))

\* after a rotation: two files of today and records in the buffer
C27_Witness ==
    /\ OneLoggerNoFailure
    /\ Indices(files, today) = {0, 1}
    /\ Len(FileRecs(files, FileName(today, 1))) > 0
    /\ Len(stack) > 0

\* ---------------------------------------------------------------- C28
\* C28 as stated: the entry for today of a report getLogs(0, _) is about to
\* return is what the files and the buffer held at one instant, so it holds
\* no record twice.
C28_ReportIsSnapshot ==
    \A r \in Readers :
        (pc[r] = "runlock" /\ HasEntry(loc[r].lr, today, name)) =>
            Cardinality(Range(loc[r].lr[today][name])) = Len(loc[r].lr[today][name])

\* ---------------------------------------------------------------- C29
\* a file that decodes holds the record numbered k
InFile(k) == \E f \in DOMAIN files : \E r \in Range(FileRecs(files, f)) : r.id = k

\* writes keep arriving: again and again a write has accepted a record, until
\* the run has no room for another
WritesKeepArriving ==
    []<>((ret.op = "write" /\ ret.rec # NoRec) \/ h.total = MaxLiveWrites)

\* C29: files change only in a write that calls flush; with no failed flush,
\* a record is in a file once MaxStackSize-1 more records have been accepted;
\* and when writes keep arriving every accepted record gets into a file,
\* unless the run ends before MaxStackSize-1 more records have arrived.
C29_PersistedWithinThreshold ==
    /\ [][files' # files => (WriteStep /\ ret'.flushed)]_vars
    /\ [](\A k \in 1..h.total : h.total - k >= MaxStackSize - 1 => InFile(k))
    /\ WritesKeepArriving =>
          \A k \in 1..MaxLiveWrites :
              (h.total >= k) ~>
                 (InFile(k) \/ (h.total = MaxLiveWrites /\ h.total - k < MaxStackSize - 1))

\* the flush of the tenth write has put the sixth record in a file
C29_Witness ==
    /\ h.total = 2 * MaxStackSize
    /\ stack = <<>>
    /\ InFile(MaxStackSize + 1)

\* ---------------------------------------------------------------- C30
\* C30 as stated: every record in a file named for a date, and every record
\* getLogs reports under a date, was accepted by Write on that date.
C30_RecordsUnderAcceptanceDate ==
    /\ \A f \in DOMAIN files : \A r \in RawRecs(files[f].bytes) : r.day = f.date
    /\ ret.op = "getLogs" =>
          \A d \in DOMAIN ret.report : \A r \in Range(ret.report[d][name]) : r.day = d

====
